---- MODULE Spec2Model ----
(***************************************************************************)
(* Model of src/03-mongodb-transactions/example.js: transactionExample,    *)
(* with the Core API runner (commitWithRetry, runTransactionWithRetry,     *)
(* updateEmployeeInfo) translated statement by statement.                  *)
(*                                                                         *)
(* The MongoDB driver and server are the environment.  Every awaited       *)
(* driver call (updateOne, insertOne, commitTransaction, abortTransaction, *)
(* withTransaction) either returns normally or throws an error carrying    *)
(* any subset of the two error labels; which one is chosen                 *)
(* nondeterministically.  session.startTransaction is a synchronous call   *)
(* that only records client-side state and is modelled as returning.       *)
(*                                                                         *)
(* Spec is transactionExample as written; FairSpec adds the scheduling of  *)
(* the event loop; SpecConc runs the Core API runner on two sessions at    *)
(* once; SpecHandler is the record-retrieval handler of part_000.          *)
(***************************************************************************)
EXTENDS Integers, Sequences, FiniteSets, TLC

\* Number of errors the database may return on one session.
MaxFaults == 3

\* The same number when two runs are in progress at the same time.
MaxConcFaults == 1

Transient == "TransientTransactionError"
Unknown   == "UnknownTransactionCommitResult"
Labels    == {Transient, Unknown}

\* s1 is the session of Example 1, s2 the session client.withSession opens.
Sessions == {"s1", "s2"}

MsgCommitted   == "Transaction committed."
MsgCommitRetry == "UnknownTransactionCommitResult, retrying commit operation ..."
MsgCommitError == "Error during commit ..."
MsgAborted     == "Transaction aborted. Caught exception during transaction."
MsgTxnRetry    == "TransientTransactionError, retrying transaction ..."

VARIABLES
  mpc,         \* position of transactionExample
  sess,        \* per session: "none", "open" or "ended"
  endCount,    \* per session: number of endSession calls made on it
  calls,       \* per session: the driver calls issued on it, with their results
  pc,          \* per session: position of the run on that session
  pending,     \* per session: error held by updateEmployeeInfo's catch block
  rstate,      \* per session: "pending", "resolved" or "rejected" (the run's promise)
  rerr,        \* per session: the error the run rejected with
  txnApplied,  \* per session: the database has applied the current transaction
  committed,   \* per session: number of transactions the database has applied
  out,         \* console output
  clientClosed,
  serverStopped,
  hpc,         \* position of the record-retrieval handler
  movies,      \* the documents of sample_mflix.movies, in cursor order
  event,       \* the argument of the handler's current invocation
  body,        \* the handler's local constant body
  response     \* what the handler's last invocation resolved with

\* The state of transactionExample.
tvars == <<mpc, sess, endCount, calls, pc, pending, rstate, rerr,
           txnApplied, committed, out, clientClosed, serverStopped>>

\* The state of the record-retrieval handler.
hvars == <<hpc, movies, event, body, response>>

vars == <<tvars, hvars>>

\* The handler has resolved with nothing yet.
NoResponse == [statusCode |-> 0, body |-> <<>>]

\* The handler is not part of the run of transactionExample.
HandlerAtRest ==
  /\ hpc = "idle"
  /\ movies = <<>>
  /\ event = "none"
  /\ body = <<>>
  /\ response = NoResponse

\* A normal return of a driver call.
Success == [ok |-> TRUE, id |-> <<"-", 0>>, labels |-> {}]

\* The error thrown by the n-th call on session s; id is its identity.
Err(s, n, L) == [ok |-> FALSE, id |-> <<s, n>>, labels |-> L]

NoErr == Success

hasErrorLabel(error, label) == label \in error.labels

NumFaults(s) == Cardinality({i \in 1..Len(calls[s]) : ~calls[s][i].res.ok})

FaultBound == IF mpc = "concurrent" THEN MaxConcFaults ELSE MaxFaults

\* What the next driver call on session s may answer.
Outcomes(s) ==
  {Success} \cup
  (IF NumFaults(s) < FaultBound
     THEN {Err(s, Len(calls[s]) + 1, L) : L \in SUBSET Labels}
     ELSE {})

Call(s, op, res) == calls' = [calls EXCEPT ![s] = Append(@, [op |-> op, res |-> res])]

\* The test of example.js:82 made exclusive: an error that also carries
\* TransientTransactionError is not retried as a commit.
CommitRetriesAlt(error) ==
  hasErrorLabel(error, Unknown) /\ ~hasErrorLabel(error, Transient)

\* The test of example.js:82 with the label of example.js:99.
CommitRetriesSwapped(error) == hasErrorLabel(error, Transient)

\* example.js:82  the test of commitWithRetry's catch block
CommitRetries(error) == hasErrorLabel(error, Unknown)

\* The catch block of example.js:95-104 without its retry branch.
TxnRetriesNever(error) == FALSE

\* The test of example.js:99 made exclusive: an error that also carries
\* UnknownTransactionCommitResult does not restart the transaction.
TxnRetriesAlt(error) ==
  hasErrorLabel(error, Transient) /\ ~hasErrorLabel(error, Unknown)

\* example.js:99  the test of runTransactionWithRetry's catch block
TxnRetries(error) == hasErrorLabel(error, Transient)

\* The catch block of example.js:95-104 with the recursive call of line 101
\* left out: after a TransientTransactionError the function just returns.
RunCatchNoRecursion(s, error, msgs) ==
  IF TxnRetries(error)
    THEN /\ out' = out \o msgs \o <<MsgAborted, MsgTxnRetry>>
         /\ pc' = [pc EXCEPT ![s] = "returned"]
         /\ rstate' = [rstate EXCEPT ![s] = "resolved"]
         /\ UNCHANGED rerr
    ELSE /\ out' = out \o msgs \o <<MsgAborted>>
         /\ pc' = [pc EXCEPT ![s] = "returned"]
         /\ rstate' = [rstate EXCEPT ![s] = "rejected"]
         /\ rerr' = [rerr EXCEPT ![s] = error]

\* example.js:95-104  catch block of runTransactionWithRetry, entered with
\* the error thrown out of updateEmployeeInfo; msgs is what was printed
\* earlier in the same step.
RunCatch(s, error, msgs) ==
  IF TxnRetries(error)
    THEN /\ out' = out \o msgs \o <<MsgAborted, MsgTxnRetry>>
         /\ pc' = [pc EXCEPT ![s] = "start"]
         /\ UNCHANGED <<rstate, rerr>>
    ELSE /\ out' = out \o msgs \o <<MsgAborted>>
         /\ pc' = [pc EXCEPT ![s] = "returned"]
         /\ rstate' = [rstate EXCEPT ![s] = "rejected"]
         /\ rerr' = [rerr EXCEPT ![s] = error]

\* The same place without the try/catch of example.js:130-135: the commit
\* error goes straight to the caller.
UpdateCatchNoAbort(s, error, msgs) ==
  /\ RunCatch(s, error, msgs)
  /\ UNCHANGED pending

\* The catch block of example.js:132 with the caught error kept in a
\* variable of the enclosing function instead of the block's own binding:
\* every run in progress sees the error caught last.
UpdateCatchShared(s, error, msgs) ==
  /\ out' = out \o msgs
  /\ pc' = [pc EXCEPT ![s] = "abort"]
  /\ pending' = [t \in Sessions |-> error]
  /\ UNCHANGED <<rstate, rerr>>

\* example.js:132-133  commitWithRetry threw (87): the catch block of
\* updateEmployeeInfo keeps the error and calls session.abortTransaction.
UpdateCatch(s, error, msgs) ==
  /\ out' = out \o msgs
  /\ pc' = [pc EXCEPT ![s] = "abort"]
  /\ pending' = [pending EXCEPT ![s] = error]
  /\ UNCHANGED <<rstate, rerr>>

Init ==
  /\ mpc = "ex1_run"
  /\ sess = [s \in Sessions |-> IF s = "s1" THEN "open" ELSE "none"]
  /\ endCount = [s \in Sessions |-> 0]
  /\ calls = [s \in Sessions |-> <<>>]
  /\ pc = [s \in Sessions |-> "idle"]
  /\ pending = [s \in Sessions |-> NoErr]
  /\ rstate = [s \in Sessions |-> "pending"]
  /\ rerr = [s \in Sessions |-> NoErr]
  /\ txnApplied = [s \in Sessions |-> FALSE]
  /\ committed = [s \in Sessions |-> 0]
  /\ out = <<>>
  /\ clientClosed = FALSE
  /\ serverStopped = FALSE
  /\ HandlerAtRest

\* example.js:52-64  await session.withTransaction(...)
Ex1WithTransaction ==
  /\ mpc = "ex1_run"
  /\ \E res \in Outcomes("s1") :
       /\ Call("s1", "withTransaction", res)
       /\ IF res.ok
            THEN /\ rstate' = [rstate EXCEPT !["s1"] = "resolved"]
                 /\ rerr' = rerr
                 /\ committed' = [committed EXCEPT !["s1"] = @ + 1]
            ELSE /\ rstate' = [rstate EXCEPT !["s1"] = "rejected"]
                 /\ rerr' = [rerr EXCEPT !["s1"] = res]
                 /\ committed' = committed
  /\ mpc' = "ex1_finally"
  /\ UNCHANGED <<sess, endCount, pc, pending, txnApplied, out,
                 clientClosed, serverStopped>>
  /\ UNCHANGED hvars

\* The same place with endSession after the try statement instead of in its
\* finally block: skipped when withTransaction rejected.
Ex1EndSessionNoFinally ==
  /\ mpc = "ex1_finally"
  /\ IF rstate["s1"] = "resolved"
       THEN /\ sess' = [sess EXCEPT !["s1"] = "ended"]
            /\ endCount' = [endCount EXCEPT !["s1"] = @ + 1]
            /\ mpc' = "ex2_open"
       ELSE /\ mpc' = "rejected"
            /\ UNCHANGED <<sess, endCount>>
  /\ UNCHANGED <<calls, pc, pending, rstate, rerr, txnApplied, committed, out,
                 clientClosed, serverStopped>>
  /\ UNCHANGED hvars

\* example.js:65-68  finally { await session.endSession(); }
Ex1EndSession ==
  /\ mpc = "ex1_finally"
  /\ sess' = [sess EXCEPT !["s1"] = "ended"]
  /\ endCount' = [endCount EXCEPT !["s1"] = @ + 1]
  /\ mpc' = IF rstate["s1"] = "resolved" THEN "ex2_open" ELSE "rejected"
  /\ UNCHANGED <<calls, pc, pending, rstate, rerr, txnApplied, committed, out,
                 clientClosed, serverStopped>>
  /\ UNCHANGED hvars

\* example.js:138-139  client.withSession opens a session and calls
\* runTransactionWithRetry(updateEmployeeInfo, client, session) with it
WithSessionOpen ==
  /\ mpc = "ex2_open"
  /\ sess' = [sess EXCEPT !["s2"] = "open"]
  /\ pc' = [pc EXCEPT !["s2"] = "start"]
  /\ mpc' = "ex2_run"
  /\ UNCHANGED <<endCount, calls, pending, rstate, rerr, txnApplied, committed,
                 out, clientClosed, serverStopped>>
  /\ UNCHANGED hvars

\* example.js:94 and 109-113  txnFunc is entered: session.startTransaction
StartTransaction(s) ==
  /\ pc[s] = "start"
  /\ Call(s, "start", Success)
  /\ txnApplied' = [txnApplied EXCEPT ![s] = FALSE]
  /\ pc' = [pc EXCEPT ![s] = "updateOne"]
  /\ UNCHANGED <<mpc, sess, endCount, pending, rstate, rerr, committed, out,
                 clientClosed, serverStopped>>
  /\ UNCHANGED hvars

\* A WorkUnit operation: on success the next statement, on error the
\* exception leaves updateEmployeeInfo (the operation is outside its try)
\* and reaches the catch block of runTransactionWithRetry.
WorkOp(s, here, op, next) ==
  /\ pc[s] = here
  /\ \E res \in Outcomes(s) :
       /\ Call(s, op, res)
       /\ IF res.ok
            THEN /\ pc' = [pc EXCEPT ![s] = next]
                 /\ UNCHANGED <<rstate, rerr, out>>
            ELSE RunCatch(s, res, <<>>)
  /\ UNCHANGED <<mpc, sess, endCount, pending, txnApplied, committed,
                 clientClosed, serverStopped>>
  /\ UNCHANGED hvars

\* example.js:117-121
UpdateOne(s) == WorkOp(s, "updateOne", "updateOne", "insertOne")

\* example.js:122-128 without the await: the insert is issued and the next
\* statement runs whether or not it fails.
InsertOneNotAwaited(s) ==
  /\ pc[s] = "insertOne"
  /\ \E res \in Outcomes(s) : Call(s, "insertOne", res)
  /\ pc' = [pc EXCEPT ![s] = "commit"]
  /\ UNCHANGED <<mpc, sess, endCount, pending, rstate, rerr, txnApplied,
                 committed, out, clientClosed, serverStopped>>
  /\ UNCHANGED hvars

\* example.js:122-128
InsertOne(s) == WorkOp(s, "insertOne", "insertOne", "commit")

\* What the database does with the transaction on a commit call answered
\* by res: a normal return means it is applied, an error without
\* UnknownTransactionCommitResult means this call did not apply it, an
\* error with that label leaves either possible.
CommitApplies(res, apply) ==
  /\ res.ok => apply
  /\ (~res.ok /\ ~hasErrorLabel(res, Unknown)) => ~apply

\* example.js:77-90 commitWithRetry, one commitTransaction call and what
\* follows it up to the next awaited call; on success control returns
\* through updateEmployeeInfo (131) and runTransactionWithRetry (94) and
\* the run resolves.
CommitTransaction(s) ==
  /\ pc[s] = "commit"
  /\ \E res \in Outcomes(s), apply \in BOOLEAN :
       /\ CommitApplies(res, apply)
       /\ Call(s, "commit", res)
       /\ txnApplied' = [txnApplied EXCEPT ![s] = @ \/ apply]
       /\ committed' = [committed EXCEPT
                          ![s] = IF apply /\ ~txnApplied[s] THEN @ + 1 ELSE @]
       /\ IF res.ok
            THEN /\ out' = Append(out, MsgCommitted)
                 /\ pc' = [pc EXCEPT ![s] = "returned"]
                 /\ rstate' = [rstate EXCEPT ![s] = "resolved"]
                 /\ UNCHANGED <<rerr, pending>>
            ELSE IF CommitRetries(res)
              THEN /\ out' = Append(out, MsgCommitRetry)
                   /\ UNCHANGED <<pc, rstate, rerr, pending>>
              ELSE UpdateCatch(s, res, <<MsgCommitError>>)
  /\ UNCHANGED <<mpc, sess, endCount, clientClosed, serverStopped>>
  /\ UNCHANGED hvars

\* The catch block of example.js:132-135 calling abortTransaction again
\* when the abort itself throws.
AbortTransactionRepeated(s) ==
  /\ pc[s] = "abort"
  /\ \E res \in Outcomes(s) :
       /\ Call(s, "abort", res)
       /\ IF res.ok
            THEN /\ RunCatch(s, pending[s], <<>>)
                 /\ pending' = [pending EXCEPT ![s] = NoErr]
            ELSE UNCHANGED <<pc, pending, rstate, rerr, out>>
  /\ UNCHANGED <<mpc, sess, endCount, txnApplied, committed,
                 clientClosed, serverStopped>>
  /\ UNCHANGED hvars

\* example.js:132-135  catch of updateEmployeeInfo: await
\* session.abortTransaction(); throw error.  If the abort throws, its
\* error is the one that leaves updateEmployeeInfo.
AbortTransaction(s) ==
  /\ pc[s] = "abort"
  /\ \E res \in Outcomes(s) :
       /\ Call(s, "abort", res)
       /\ RunCatch(s, IF res.ok THEN pending[s] ELSE res, <<>>)
  /\ pending' = [pending EXCEPT ![s] = NoErr]
  /\ UNCHANGED <<mpc, sess, endCount, txnApplied, committed,
                 clientClosed, serverStopped>>
  /\ UNCHANGED hvars

\* example.js:138-140 with .finally in place of the first .then: the client
\* is closed whether the run resolved or rejected.
WithSessionReleaseFinally ==
  /\ mpc = "ex2_run"
  /\ pc["s2"] = "returned"
  /\ sess' = [sess EXCEPT !["s2"] = "ended"]
  /\ endCount' = [endCount EXCEPT !["s2"] = @ + 1]
  /\ mpc' = "clientClose"
  /\ UNCHANGED <<calls, pc, pending, rstate, rerr, txnApplied, committed, out,
                 clientClosed, serverStopped>>
  /\ UNCHANGED hvars

\* example.js:138-139 with a callback that does not return the promise of
\* the run: withSession releases the session without waiting for it.
WithSessionReleaseNotAwaited ==
  /\ mpc = "ex2_run"
  /\ sess' = [sess EXCEPT !["s2"] = "ended"]
  /\ endCount' = [endCount EXCEPT !["s2"] = @ + 1]
  /\ mpc' = "clientClose"
  /\ UNCHANGED <<calls, pc, pending, rstate, rerr, txnApplied, committed, out,
                 clientClosed, serverStopped>>
  /\ UNCHANGED hvars

\* example.js:138-140  withSession ends its session when the promise of
\* the callback settles; .then(() => client.close()) runs only if it
\* resolved.
WithSessionRelease ==
  /\ mpc = "ex2_run"
  /\ pc["s2"] = "returned"
  /\ sess' = [sess EXCEPT !["s2"] = "ended"]
  /\ endCount' = [endCount EXCEPT !["s2"] = @ + 1]
  /\ mpc' = IF rstate["s2"] = "resolved" THEN "clientClose" ELSE "rejected"
  /\ UNCHANGED <<calls, pc, pending, rstate, rerr, txnApplied, committed, out,
                 clientClosed, serverStopped>>
  /\ UNCHANGED hvars

\* example.js:140  .then(() => client.close())
ClientClose ==
  /\ mpc = "clientClose"
  /\ clientClosed' = TRUE
  /\ mpc' = "serverStop"
  /\ UNCHANGED <<sess, endCount, calls, pc, pending, rstate, rerr, txnApplied,
                 committed, out, serverStopped>>
  /\ UNCHANGED hvars

\* example.js:140  .then(() => server.stop())
ServerStop ==
  /\ mpc = "serverStop"
  /\ serverStopped' = TRUE
  /\ mpc' = "resolved"
  /\ UNCHANGED <<sess, endCount, calls, pc, pending, rstate, rerr, txnApplied,
                 committed, out, clientClosed>>
  /\ UNCHANGED hvars

Next ==
  \/ Ex1WithTransaction
  \/ Ex1EndSession
  \/ WithSessionOpen
  \/ \E s \in Sessions : StartTransaction(s)
  \/ \E s \in Sessions : UpdateOne(s)
  \/ \E s \in Sessions : InsertOne(s)
  \/ \E s \in Sessions : CommitTransaction(s)
  \/ \E s \in Sessions : AbortTransaction(s)
  \/ WithSessionRelease
  \/ ClientClose
  \/ ServerStop

Spec == Init /\ [][Next]_vars

(***************************************************************************)
(* Reading the call log of a session.                                      *)
(***************************************************************************)
Idx(s) == 1..Len(calls[s])

NumCalls(s, op) == Cardinality({i \in Idx(s) : calls[s][i].op = op})

FaultIdx(s) == {i \in Idx(s) : ~calls[s][i].res.ok}

IsWorkOpAt(s, i) == calls[s][i].op \in {"updateOne", "insertOne"}

IsCommitAt(s, i) == calls[s][i].op = "commit"

LabelsAt(s, i) == calls[s][i].res.labels

\* Every execution of the WorkUnit starts at its first operation, right
\* after a startTransaction of its own.
EachExecutionInNewTransaction(s) ==
  /\ \A i \in Idx(s) : calls[s][i].op = "updateOne" =>
       i > 1 /\ calls[s][i - 1].op = "start"
  /\ \A i \in Idx(s) : (calls[s][i].op = "start" /\ i < Len(calls[s])) =>
       calls[s][i + 1].op = "updateOne"

\* The only errors the database has returned on s are WorkUnit errors
\* labelled TransientTransactionError.
OnlyTransientWorkFaults(s) ==
  \A i \in FaultIdx(s) : IsWorkOpAt(s, i) /\ Transient \in LabelsAt(s, i)

\* C1: as long as the only failures are k WorkUnit failures labelled
\* TransientTransactionError, the run never rejects; every execution of
\* the WorkUnit begins inside a transaction started for it; and once the
\* commit that follows has succeeded the run has resolved with exactly
\* k+1 startTransaction calls and k+1 executions of the WorkUnit.
C1_TransientRetryThenSuccess ==
  \A s \in Sessions :
    (pc[s] # "idle" /\ OnlyTransientWorkFaults(s)) =>
      /\ rstate[s] # "rejected"
      /\ EachExecutionInNewTransaction(s)
      /\ NumCalls(s, "abort") = 0
      /\ pc[s] = "returned" =>
           /\ rstate[s] = "resolved"
           /\ NumCalls(s, "start") = NumFaults(s) + 1
           /\ NumCalls(s, "updateOne") = NumFaults(s) + 1
           /\ NumCalls(s, "commit") = 1

C1_Witness ==
  /\ pc["s2"] = "returned"
  /\ OnlyTransientWorkFaults("s2")
  /\ NumFaults("s2") = 2
  /\ rstate["s2"] = "resolved"
  /\ NumCalls("s2", "updateOne") = 3

\* The only errors the database has returned on s are commit errors
\* labelled UnknownTransactionCommitResult.
OnlyUnknownCommitFaults(s) ==
  \A i \in FaultIdx(s) : IsCommitAt(s, i) /\ Unknown \in LabelsAt(s, i)

\* C2: as long as the only failures are n commit failures labelled
\* UnknownTransactionCommitResult, the run never rejects, never starts a
\* second transaction and never executes the WorkUnit a second time; once
\* a commit has succeeded the run has resolved after exactly n+1 commit
\* attempts, one startTransaction and one execution of the WorkUnit.
C2_CommitRetryOnly ==
  \A s \in Sessions :
    (pc[s] # "idle" /\ OnlyUnknownCommitFaults(s)) =>
      /\ rstate[s] # "rejected"
      /\ NumCalls(s, "start") <= 1
      /\ NumCalls(s, "updateOne") <= 1
      /\ NumCalls(s, "insertOne") <= 1
      /\ NumCalls(s, "abort") = 0
      /\ pc[s] = "returned" =>
           /\ rstate[s] = "resolved"
           /\ NumCalls(s, "commit") = NumFaults(s) + 1
           /\ NumCalls(s, "start") = 1
           /\ NumCalls(s, "updateOne") = 1
           /\ NumCalls(s, "insertOne") = 1

C2_Witness ==
  /\ pc["s2"] = "returned"
  /\ OnlyUnknownCommitFaults("s2")
  /\ NumFaults("s2") = 2
  /\ rstate["s2"] = "resolved"
  /\ NumCalls("s2", "commit") = 3

\* The run on s has returned and the only error the database returned is
\* one WorkUnit error without the TransientTransactionError label.
EndedByTerminalWorkFault(s) ==
  /\ pc[s] = "returned"
  /\ NumFaults(s) = 1
  /\ \A i \in FaultIdx(s) : IsWorkOpAt(s, i) /\ Transient \notin LabelsAt(s, i)

\* C3: when a WorkUnit operation fails with an error that has no
\* TransientTransactionError label, the run rejects with that very error,
\* abortTransaction has been called exactly once and commitTransaction
\* not at all.
C3_TerminalWorkErrorAborts ==
  \A s \in Sessions :
    EndedByTerminalWorkFault(s) =>
      /\ rstate[s] = "rejected"
      /\ \A i \in FaultIdx(s) : rerr[s] = calls[s][i].res
      /\ NumCalls(s, "abort") = 1
      /\ NumCalls(s, "commit") = 0

\* The run on s has returned and the only error the database returned is
\* one commit error that carries neither label.
EndedByUnlabelledCommitFault(s) ==
  /\ pc[s] = "returned"
  /\ NumFaults(s) = 1
  /\ \A i \in FaultIdx(s) : IsCommitAt(s, i) /\ LabelsAt(s, i) = {}

\* C4 as stated: when the commit fails with an error carrying neither
\* label, the run rejects with that very error and abortTransaction is not
\* called at any point of the run.
C4_Original_NoAbortAfterCommitError ==
  \A s \in Sessions :
    EndedByUnlabelledCommitFault(s) =>
      /\ rstate[s] = "rejected"
      /\ \A i \in FaultIdx(s) : rerr[s] = calls[s][i].res
      /\ NumCalls(s, "abort") = 0

\* The error that leaves updateEmployeeInfo after the commit at i failed
\* and abortTransaction was called at i+1: the commit's error if the abort
\* returned, the abort's own error if it threw.
LeavingError(s, i) ==
  IF calls[s][i + 1].res.ok THEN calls[s][i].res ELSE calls[s][i + 1].res

\* C4 as amended: a commit error carrying neither label is followed by
\* exactly one abortTransaction call, issued right after it; if the abort
\* returns the run rejects with the commit's very error and issues no
\* further call, and if the abort throws an error without
\* TransientTransactionError the run rejects with the abort's error.
C4_TerminalCommitErrorAbortsOnce ==
  \A s \in Sessions : \A i \in Idx(s) :
    (IsCommitAt(s, i) /\ ~calls[s][i].res.ok /\ LabelsAt(s, i) = {}) =>
      /\ i = Len(calls[s]) =>
           /\ pc[s] = "abort"
           /\ pending[s] = calls[s][i].res
           /\ rstate[s] = "pending"
      /\ i < Len(calls[s]) =>
           /\ calls[s][i + 1].op = "abort"
           /\ i + 1 < Len(calls[s]) => calls[s][i + 2].op # "abort"
           /\ Transient \notin LeavingError(s, i).labels =>
                /\ Len(calls[s]) = i + 1
                /\ pc[s] = "returned"
                /\ rstate[s] = "rejected"
                /\ rerr[s] = LeavingError(s, i)

C4_Witness ==
  /\ EndedByUnlabelledCommitFault("s2")
  /\ NumCalls("s2", "abort") = 1
  /\ rstate["s2"] = "rejected"
  /\ \A i \in FaultIdx("s2") : rerr["s2"] = calls["s2"][i].res

\* C5 as stated: once commitTransaction has been attempted, the run never
\* starts a transaction again.
C5_Original_NoRestartAfterCommit ==
  \A s \in Sessions : \A i, j \in Idx(s) :
    (IsCommitAt(s, i) /\ i < j) => calls[s][j].op # "start"

\* What follows the commit call at i is what the code has decided by then:
\* the next call if there is one, the position of the run otherwise.
FollowedBy(s, i, op) ==
  IF i < Len(calls[s]) THEN calls[s][i + 1].op = op ELSE pc[s] = op

\* C5 as amended: after a commit attempt the run retries the commit (if
\* and only if the error carries UnknownTransactionCommitResult), resolves
\* (if the commit returned), or calls abortTransaction (any other commit
\* error); after that abort it either rejects with the error that leaves
\* updateEmployeeInfo or, if and only if that error carries
\* TransientTransactionError, starts a new transaction.  A new transaction
\* is started after a commit attempt in no other way.
C5_MovesAfterCommit ==
  \A s \in Sessions : \A i \in Idx(s) :
    IsCommitAt(s, i) =>
      /\ calls[s][i].res.ok =>
           /\ i = Len(calls[s])
           /\ pc[s] = "returned"
           /\ rstate[s] = "resolved"
      /\ (~calls[s][i].res.ok /\ Unknown \in LabelsAt(s, i)) =>
           FollowedBy(s, i, "commit")
      /\ (~calls[s][i].res.ok /\ Unknown \notin LabelsAt(s, i)) =>
           /\ FollowedBy(s, i, "abort")
           /\ i < Len(calls[s]) =>
                IF Transient \in LeavingError(s, i).labels
                  THEN /\ FollowedBy(s, i + 1, "start")
                       /\ i + 1 = Len(calls[s]) => rstate[s] = "pending"
                  ELSE /\ i + 1 = Len(calls[s])
                       /\ pc[s] = "returned"
                       /\ rstate[s] = "rejected"
                       /\ rerr[s] = LeavingError(s, i)

C5_Witness ==
  \E i \in Idx("s2") :
    /\ IsCommitAt("s2", i)
    /\ ~calls["s2"][i].res.ok
    /\ LabelsAt("s2", i) = {Transient}
    /\ i + 2 <= Len(calls["s2"])
    /\ calls["s2"][i + 1].op = "abort"
    /\ calls["s2"][i + 1].res.ok
    /\ calls["s2"][i + 2].op = "start"

\* C6: when the run resolves the effects of the WorkUnit have been
\* committed exactly once, and when it rejects none of them is committed.
C6_CommittedExactlyOnceOrNotAtAll ==
  \A s \in Sessions :
    pc[s] = "returned" =>
      /\ rstate[s] = "resolved" => committed[s] = 1
      /\ rstate[s] = "rejected" => committed[s] = 0

\* transactionExample has not yet reached the end of Example 1's finally.
BeforeEx1Finally == mpc \in {"ex1_run", "ex1_finally"}

\* transactionExample is inside client.withSession, before its release.
InsideWithSession == mpc = "ex2_run"

\* C7: no session is closed while it is in use and each is closed exactly
\* once by its owner afterwards: Example 1's session has been ended once
\* as soon as the finally block has run, whether withTransaction resolved
\* or rejected; the session of withSession has not been ended at any point
\* while the run is in progress or has just returned, and has been ended
\* exactly once after withSession released it, whether the run resolved or
\* rejected.
C7_SessionClosedOnceByOwner ==
  /\ endCount["s1"] = (IF BeforeEx1Finally THEN 0 ELSE 1)
  /\ sess["s1"] = (IF BeforeEx1Finally THEN "open" ELSE "ended")
  /\ endCount["s2"] = (IF sess["s2"] = "ended" THEN 1 ELSE 0)
  /\ InsideWithSession => sess["s2"] = "open"
  /\ pc["s2"] \in {"start", "updateOne", "insertOne", "commit", "abort"} =>
       InsideWithSession
  /\ (sess["s2"] # "none" /\ ~InsideWithSession) =>
       /\ sess["s2"] = "ended"
       /\ pc["s2"] = "returned"
       /\ rstate["s2"] # "pending"

C7_Witness ==
  /\ mpc = "rejected"
  /\ sess["s2"] = "ended"
  /\ endCount["s2"] = 1
  /\ rstate["s2"] = "rejected"
  /\ NumCalls("s2", "abort") = 1

\* The transaction started at call i on s was ended by client code: a
\* commitTransaction that returned or an abortTransaction call was issued
\* after it and before the next startTransaction.
ExplicitlyEnded(s, i) ==
  \E j \in Idx(s) :
    /\ i < j
    /\ \/ (calls[s][j].op = "commit" /\ calls[s][j].res.ok)
       \/ calls[s][j].op = "abort"
    /\ \A k \in Idx(s) : (i < k /\ k < j) => calls[s][k].op # "start"

\* C8: when a session has been released, every transaction started on it
\* has been ended by a successful commit or by an abort issued by the
\* client code.
C8_TransactionsEndedBeforeRelease ==
  \A s \in Sessions :
    sess[s] = "ended" =>
      \A i \in Idx(s) : calls[s][i].op = "start" => ExplicitlyEnded(s, i)

\* C9: an error carrying both labels restarts the whole transaction when a
\* WorkUnit operation raised it (the next call is startTransaction, no
\* abort or commit in between) and makes the commit call alone be retried
\* when commitTransaction raised it (the next call is commitTransaction);
\* in neither case does the run reject because of it.
C9_BothLabelsClassifiedByContext ==
  \A s \in Sessions : \A i \in Idx(s) :
    (~calls[s][i].res.ok /\ LabelsAt(s, i) = Labels) =>
      /\ IsWorkOpAt(s, i) => FollowedBy(s, i, "start")
      /\ IsCommitAt(s, i) => FollowedBy(s, i, "commit")
      /\ ((IsWorkOpAt(s, i) \/ IsCommitAt(s, i)) /\ i = Len(calls[s])) =>
           rstate[s] = "pending"

C9_Witness ==
  \E i, j \in Idx("s2") :
    /\ IsWorkOpAt("s2", i) /\ LabelsAt("s2", i) = Labels
    /\ IsCommitAt("s2", j) /\ LabelsAt("s2", j) = Labels
    /\ ~calls["s2"][i].res.ok /\ ~calls["s2"][j].res.ok
    /\ calls["s2"][i + 1].op = "start"
    /\ j < Len(calls["s2"])
    /\ calls["s2"][j + 1].op = "commit"
    /\ rstate["s2"] = "resolved"

\* The calls of the run's own protocol that failed: WorkUnit operations
\* and commits.
FailedOperations(s) ==
  {i \in FaultIdx(s) : IsWorkOpAt(s, i) \/ IsCommitAt(s, i)}

\* C10: when the run rejects, the error it delivers is the very error the
\* database returned for the last WorkUnit operation or commit that
\* failed, never another one.
C10_ErrorPropagatedVerbatim ==
  \A s \in Sessions :
    (pc[s] = "returned" /\ rstate[s] = "rejected") =>
      /\ FailedOperations(s) # {}
      /\ \A i \in FailedOperations(s) :
           (\A k \in FailedOperations(s) : k <= i) => rerr[s] = calls[s][i].res

\* C11: the run never rejects with an error that a WorkUnit operation
\* raised and that carries TransientTransactionError; such an error is
\* always answered by a new startTransaction.
C11_TransientWorkErrorNeverSurfaces ==
  \A s \in Sessions : \A i \in Idx(s) :
    (IsWorkOpAt(s, i) /\ ~calls[s][i].res.ok /\ Transient \in LabelsAt(s, i)) =>
      /\ rerr[s] # calls[s][i].res
      /\ FollowedBy(s, i, "start")

C11_Witness ==
  /\ pc["s2"] = "returned"
  /\ rstate["s2"] = "rejected"
  /\ \E i \in Idx("s2") :
       /\ IsWorkOpAt("s2", i)
       /\ ~calls["s2"][i].res.ok
       /\ Transient \in LabelsAt("s2", i)
  /\ NumFaults("s2") = MaxFaults

(***************************************************************************)
(* Termination.  Every step of the program is the settling of a promise    *)
(* the event loop is waiting for, so a step that stays possible is         *)
(* eventually taken: weak fairness of Next.  The database stops returning  *)
(* errors after MaxFaults of them.                                         *)
(***************************************************************************)
FairSpec == Spec /\ WF_vars(Next)

\* The run on s has ended in one of its terminal states: committed (the
\* last call is a commitTransaction that returned and the run resolved) or
\* failed (the run rejected).
Terminal(s) ==
  /\ pc[s] = "returned"
  /\ \/ rstate[s] = "rejected"
     \/ /\ rstate[s] = "resolved"
        /\ Len(calls[s]) > 0
        /\ calls[s][Len(calls[s])].op = "commit"
        /\ calls[s][Len(calls[s])].res.ok

InitConc ==
  /\ mpc = "concurrent"
  /\ sess = [s \in Sessions |-> "open"]
  /\ endCount = [s \in Sessions |-> 0]
  /\ calls = [s \in Sessions |-> <<>>]
  /\ pc = [s \in Sessions |-> "start"]
  /\ pending = [s \in Sessions |-> NoErr]
  /\ rstate = [s \in Sessions |-> "pending"]
  /\ rerr = [s \in Sessions |-> NoErr]
  /\ txnApplied = [s \in Sessions |-> FALSE]
  /\ committed = [s \in Sessions |-> 0]
  /\ out = <<>>
  /\ clientClosed = FALSE
  /\ serverStopped = FALSE
  /\ HandlerAtRest

NextConc ==
  \/ \E s \in Sessions : StartTransaction(s)
  \/ \E s \in Sessions : UpdateOne(s)
  \/ \E s \in Sessions : InsertOne(s)
  \/ \E s \in Sessions : CommitTransaction(s)
  \/ \E s \in Sessions : AbortTransaction(s)

SpecConc == InitConc /\ [][NextConc]_vars

\* The state of one run, as runTransactionWithRetry is entered.
RunEntered == [pc |-> "start", pending |-> NoErr, rstate |-> "pending", rerr |-> NoErr]

\* example.js:95-104 on one run alone: error e reaches the catch block.
Thrown(st, e) ==
  IF hasErrorLabel(e, Transient)
    THEN [st EXCEPT !.pc = "start"]
    ELSE [st EXCEPT !.pc = "returned", !.rstate = "rejected", !.rerr = e]

\* example.js:77-136 on one run alone: what the run in state st does when
\* the call it is waiting for is c.op and the database answers c.res.  A
\* call the run would not issue in that state makes it "diverged".
ReplayStep(st, c) ==
  IF st.pc # c.op THEN [st EXCEPT !.pc = "diverged"]
  ELSE CASE c.op = "start" -> [st EXCEPT !.pc = "updateOne"]
         [] c.op = "updateOne" ->
              IF c.res.ok THEN [st EXCEPT !.pc = "insertOne"] ELSE Thrown(st, c.res)
         [] c.op = "insertOne" ->
              IF c.res.ok THEN [st EXCEPT !.pc = "commit"] ELSE Thrown(st, c.res)
         [] c.op = "commit" ->
              IF c.res.ok
                THEN [st EXCEPT !.pc = "returned", !.rstate = "resolved"]
                ELSE IF hasErrorLabel(c.res, Unknown)
                  THEN st
                  ELSE [st EXCEPT !.pc = "abort", !.pending = c.res]
         [] c.op = "abort" ->
              Thrown([st EXCEPT !.pending = NoErr],
                     IF c.res.ok THEN st.pending ELSE c.res)
         [] OTHER -> [st EXCEPT !.pc = "diverged"]

\* The run that the answers recorded in log produce when nothing else is
\* going on.
RECURSIVE Replay(_)
Replay(log) ==
  IF log = <<>>
    THEN RunEntered
    ELSE ReplayStep(Replay(SubSeq(log, 1, Len(log) - 1)), log[Len(log)])

RunState(s) ==
  [pc |-> pc[s], pending |-> pending[s], rstate |-> rstate[s], rerr |-> rerr[s]]

\* C13: with two runs interleaved in any order, the calls each run has
\* issued, its position and its outcome are exactly those that the
\* database's answers on its own session produce in a run executed alone;
\* the error a run rejects with was raised on its own session; and a run
\* whose only failures are commit errors labelled
\* UnknownTransactionCommitResult starts one transaction only and does
\* not reject, whatever happens on the other session.
C13_RunsIndependent ==
  \A s \in Sessions :
    /\ RunState(s) = Replay(calls[s])
    /\ rstate[s] = "rejected" => rerr[s].id[1] = s
    /\ OnlyUnknownCommitFaults(s) =>
         /\ NumCalls(s, "start") <= 1
         /\ rstate[s] # "rejected"

\* Session s1 failed terminally between the two commit attempts of s2.
C13_Witness ==
  /\ mpc = "concurrent"
  /\ pc["s1"] = "returned" /\ rstate["s1"] = "rejected"
  /\ pc["s2"] = "returned" /\ rstate["s2"] = "resolved"
  /\ NumCalls("s2", "commit") = 2
  /\ out = <<MsgCommitRetry, MsgAborted, MsgCommitted>>

\* The calls issued inside the transaction started at call i of s: those
\* after i and before the next startTransaction.
TxnCalls(s, i) ==
  {j \in Idx(s) : i < j /\ \A k \in Idx(s) : (i < k /\ k <= j) => calls[s][k].op # "start"}

\* The transaction started at call i is over: another one has been
\* started after it or the run has returned.
TxnOver(s, i) ==
  \/ pc[s] = "returned"
  \/ \E j \in Idx(s) : i < j /\ calls[s][j].op = "start"

EndedByCommit(s, i) ==
  \E j \in TxnCalls(s, i) : calls[s][j].op = "commit" /\ calls[s][j].res.ok

EndedByAbort(s, i) ==
  \E j \in TxnCalls(s, i) : calls[s][j].op = "abort"

\* A WorkUnit operation of the transaction failed with
\* TransientTransactionError.
InvalidatedByTransient(s, i) ==
  \E j \in TxnCalls(s, i) :
    IsWorkOpAt(s, j) /\ ~calls[s][j].res.ok /\ Transient \in LabelsAt(s, j)

\* C14: transactions of a session do not overlap, and every transaction
\* that is over has been ended by a commit that returned or by an abort,
\* never by both and never by two aborts, unless a
\* TransientTransactionError of a WorkUnit operation invalidated it.
C14_OneTransactionEndedOnce ==
  \A s \in Sessions : \A i \in Idx(s) :
    (calls[s][i].op = "start" /\ TxnOver(s, i)) =>
      /\ EndedByCommit(s, i) \/ EndedByAbort(s, i) \/ InvalidatedByTransient(s, i)
      /\ ~(EndedByCommit(s, i) /\ EndedByAbort(s, i))
      /\ Cardinality({j \in TxnCalls(s, i) : calls[s][j].op = "abort"}) <= 1

\* Call i of s is a WorkUnit operation or a startTransaction that returned.
ReturnedAt(s, i, op) == calls[s][i].op = op /\ calls[s][i].res.ok

\* Call i of s opens a commit phase: a commitTransaction not preceded by
\* another commitTransaction.
OpensCommitPhase(s, i) ==
  /\ IsCommitAt(s, i)
  /\ (i = 1 \/ ~IsCommitAt(s, i - 1))

\* C15: every commit attempt either follows, in the same transaction, a
\* startTransaction, an updateOne that returned and an insertOne that
\* returned, in that order and with nothing in between, or retries a
\* commit that failed with UnknownTransactionCommitResult; the run is at
\* the commit only in those two situations; and the commit phases entered
\* are as many as the complete executions of the WorkUnit.
C15_CommitOnlyAfterCompleteWorkUnit ==
  \A s \in Sessions :
    /\ \A i \in Idx(s) :
         IsCommitAt(s, i) =>
           \/ /\ i > 3
              /\ ReturnedAt(s, i - 1, "insertOne")
              /\ ReturnedAt(s, i - 2, "updateOne")
              /\ ReturnedAt(s, i - 3, "start")
           \/ /\ i > 1
              /\ IsCommitAt(s, i - 1)
              /\ ~calls[s][i - 1].res.ok
              /\ Unknown \in LabelsAt(s, i - 1)
    /\ pc[s] = "commit" =>
         /\ Len(calls[s]) > 0
         /\ \/ ReturnedAt(s, Len(calls[s]), "insertOne")
            \/ /\ IsCommitAt(s, Len(calls[s]))
               /\ Unknown \in LabelsAt(s, Len(calls[s]))
    /\ Cardinality({i \in Idx(s) : OpensCommitPhase(s, i)})
         <= Cardinality({i \in Idx(s) : ReturnedAt(s, i, "insertOne")})

C15_Witness ==
  /\ Cardinality({i \in Idx("s2") : OpensCommitPhase("s2", i)}) = 2
  /\ Cardinality({i \in Idx("s2") : ReturnedAt("s2", i, "insertOne")}) = 2
  /\ \E i \in Idx("s2") : IsWorkOpAt("s2", i) /\ ~calls["s2"][i].res.ok
  /\ rstate["s2"] = "resolved"

\* How many times msg has been printed.
Printed(msg) == Cardinality({i \in 1..Len(out) : out[i] = msg})

\* How many times the run on s has gone back to start a new transaction.
Restarts(s) ==
  IF Len(calls[s]) = 0 THEN 0
  ELSE NumCalls(s, "start") - 1 + (IF pc[s] = "start" THEN 1 ELSE 0)

\* How many commit attempts on s have been answered by an error labelled
\* UnknownTransactionCommitResult, each of which is retried.
CommitRetriesOf(s) ==
  Cardinality({i \in FaultIdx(s) : IsCommitAt(s, i) /\ Unknown \in LabelsAt(s, i)})

\* How many transactions of s have been aborted by the client or
\* invalidated by a TransientTransactionError of a WorkUnit operation.
AbortedOrInvalidated(s) ==
  NumCalls(s, "abort") +
  Cardinality({i \in FaultIdx(s) : IsWorkOpAt(s, i) /\ Transient \in LabelsAt(s, i)})

\* C16: the console shows one transient-retry message per restart of the
\* transaction, one commit-retry message per retried commit, the abort
\* message whenever the run has rejected, 'Transaction committed.' once
\* if the run resolved and never otherwise, and 'Transaction aborted.' no
\* more often than a transaction has been aborted or invalidated.
C16_NotificationsMatchEvents ==
  /\ Printed(MsgTxnRetry) = Restarts("s2")
  /\ Printed(MsgCommitRetry) = CommitRetriesOf("s2")
  /\ rstate["s2"] = "rejected" => Printed(MsgAborted) >= 1
  /\ Printed(MsgCommitted) = (IF rstate["s2"] = "resolved" THEN 1 ELSE 0)
  /\ Printed(MsgAborted) <= AbortedOrInvalidated("s2")

\* C17: every abortTransaction call is made inside a started transaction,
\* right after a commit attempt of that transaction that failed without
\* UnknownTransactionCommitResult; no commit of that transaction has
\* returned before it and it is the only abort of that transaction.
C17_AbortOnlyOnUncommittedTransaction ==
  \A s \in Sessions : \A j \in Idx(s) :
    calls[s][j].op = "abort" =>
      /\ j > 1
      /\ IsCommitAt(s, j - 1)
      /\ ~calls[s][j - 1].res.ok
      /\ \E i \in Idx(s) :
           /\ calls[s][i].op = "start"
           /\ j \in TxnCalls(s, i)
           /\ ~EndedByCommit(s, i)
           /\ \A k \in TxnCalls(s, i) : calls[s][k].op = "abort" => k = j

C17_Witness ==
  /\ NumCalls("s2", "abort") = 2
  /\ NumCalls("s2", "start") = 2
  /\ rstate["s2"] = "rejected"

\* C18: the client is closed only after withSession has released its
\* session and only if the run (and before it Example 1) resolved; the
\* server is stopped only after the client has been closed; and once
\* transactionExample has rejected neither has happened.
C18_ShutdownOrder ==
  /\ clientClosed =>
       /\ sess["s2"] = "ended"
       /\ rstate["s2"] = "resolved"
       /\ rstate["s1"] = "resolved"
       /\ sess["s1"] = "ended"
  /\ serverStopped => clientClosed
  /\ mpc = "clientClose" => sess["s2"] = "ended" /\ rstate["s2"] = "resolved"
  /\ mpc = "rejected" =>
       /\ ~clientClosed
       /\ ~serverStopped
       /\ rstate["s1"] = "rejected" \/ rstate["s2"] = "rejected"
  /\ (rstate["s1"] = "rejected" \/ rstate["s2"] = "rejected") =>
       ~clientClosed /\ ~serverStopped
  /\ mpc = "resolved" => clientClosed /\ serverStopped

C18_Witness ==
  /\ mpc = "resolved"
  /\ clientClosed
  /\ serverStopped
  /\ sess["s2"] = "ended"
  /\ NumFaults("s2") > 0

\* The other case of the claim: the run failed terminally and shutdown did
\* not happen.
C18_WitnessRejected ==
  /\ mpc = "rejected"
  /\ rstate["s2"] = "rejected"
  /\ sess["s2"] = "ended"
  /\ ~clientClosed

\* No run is in progress on a session that has been released, no call has
\* been made on a session not yet opened, and the session of Example 1 has
\* been ended when the session of withSession exists.
NoUseOutsideLifetime ==
  /\ \A s \in Sessions :
       /\ sess[s] = "ended" => pc[s] \in {"idle", "returned"}
       /\ sess[s] = "none" => calls[s] = <<>>
  /\ sess["s1"] = "ended" => mpc \notin {"ex1_run", "ex1_finally"}
  /\ sess["s2"] # "none" => sess["s1"] = "ended"

\* A step makes no call on a session that has been released.
NoCallAfterRelease ==
  \A s \in Sessions : sess[s] = "ended" => calls'[s] = calls[s]

\* C19: no startTransaction, WorkUnit operation, commit or abort is issued
\* on a session after it has been released: Example 1's session is ended
\* before the session of withSession is opened and is not used again, and
\* the run, with all its retries, has returned before withSession releases
\* its session.
C19_NoUseAfterRelease ==
  /\ []NoUseOutsideLifetime
  /\ [][NoCallAfterRelease]_vars

C19_Witness ==
  /\ sess["s1"] = "ended"
  /\ sess["s2"] = "ended"
  /\ NumCalls("s2", "start") = 3
  /\ pc["s2"] = "returned"

(***************************************************************************)
(* The record-retrieval handler (part_000): for one content of the movies  *)
(* collection the handler is invoked any number of times with any event.   *)
(* The query is answered by the database with the documents it holds.      *)
(***************************************************************************)
\* Largest number of documents in the collection.
MaxDocs == 11

\* part_000:8  limit(10)
Limit == 10

Docs == {"m1", "m2"}

Events == {"undefined", "empty", "apiGatewayRequest"}

Contents == UNION {[1..n -> Docs] : n \in 0..MaxDocs}

Min(a, b) == IF a <= b THEN a ELSE b

\* part_000:8  collection.find(): a cursor over every document.
Find(collection) == collection

\* limit(n) with the n-th document itself left out.
CursorLimitExclusive(cursor, n) == SubSeq(cursor, 1, Min(n - 1, Len(cursor)))

\* part_000:8  cursor.limit(n): the cursor stops after n documents.
CursorLimit(cursor, n) == SubSeq(cursor, 1, Min(n, Len(cursor)))

\* part_000:8  cursor.toArray()
ToArray(cursor) == cursor

InitHandler ==
  /\ mpc = "handler"
  /\ sess = [s \in Sessions |-> "none"]
  /\ endCount = [s \in Sessions |-> 0]
  /\ calls = [s \in Sessions |-> <<>>]
  /\ pc = [s \in Sessions |-> "idle"]
  /\ pending = [s \in Sessions |-> NoErr]
  /\ rstate = [s \in Sessions |-> "pending"]
  /\ rerr = [s \in Sessions |-> NoErr]
  /\ txnApplied = [s \in Sessions |-> FALSE]
  /\ committed = [s \in Sessions |-> 0]
  /\ out = <<>>
  /\ clientClosed = FALSE
  /\ serverStopped = FALSE
  /\ hpc = "idle"
  /\ movies \in Contents
  /\ event = "none"
  /\ body = <<>>
  /\ response = NoResponse

\* part_000:5-7  the handler is called with an event and gets the
\* collection object.
HandlerInvoke ==
  /\ hpc = "idle"
  /\ \E e \in Events : event' = e
  /\ hpc' = "find"
  /\ UNCHANGED <<movies, body, response>>
  /\ UNCHANGED tvars

\* part_000:8  const body = await collection.find().limit(10).toArray()
HandlerFind ==
  /\ hpc = "find"
  /\ body' = ToArray(CursorLimit(Find(movies), Limit))
  /\ hpc' = "return"
  /\ UNCHANGED <<movies, event, response>>
  /\ UNCHANGED tvars

\* part_000:9-13  return { statusCode: 200, body }
HandlerReturn ==
  /\ hpc = "return"
  /\ response' = [statusCode |-> 200, body |-> body]
  /\ hpc' = "idle"
  /\ body' = <<>>
  /\ UNCHANGED <<movies, event>>
  /\ UNCHANGED tvars

NextHandler ==
  \/ HandlerInvoke
  \/ HandlerFind
  \/ HandlerReturn

SpecHandler == InitHandler /\ [][NextHandler]_vars

\* What an invocation that has returned resolved with.
ResolvedAsClaimed ==
  response # NoResponse =>
    /\ response.statusCode = 200
    /\ Len(response.body) = Min(10, Len(movies))
    /\ \A i \in 1..Len(response.body) : response.body[i] = movies[i]

\* C20: for every content of the movies collection with n documents and
\* every event, the handler resolves with statusCode 200 and a body of
\* exactly min(10, n) documents of the collection, and no step of it
\* changes the collection.
C20_HandlerReturnsAtMostTen ==
  /\ []ResolvedAsClaimed
  /\ [][movies' = movies]_vars

C20_Witness ==
  /\ Len(movies) = 11
  /\ response.statusCode = 200
  /\ Len(response.body) = 10
  /\ hpc = "idle"

\* The case of a collection smaller than the limit.
C20_WitnessShort ==
  /\ Len(movies) = 3
  /\ response.statusCode = 200
  /\ Len(response.body) = 3

====
